---- MODULE Spec2Model ----
(***************************************************************************)
(* Model of the typesaurus batch coordinator (src/src/batch/index.ts).     *)
(*                                                                         *)
(* batch() creates a Firestore write batch and returns set, update, clear  *)
(* and commit.  set/update/clear resolve their target to a document        *)
(* pointer, convert the data with unwrapData and stage one operation on    *)
(* the write batch; commit awaits the write batch's commit.                *)
(*                                                                         *)
(* Strings that the code builds or that the store interprets (field keys)  *)
(* are sequences of characters, so that key.join('.') and the store's      *)
(* reading of a dotted key as a field path are computed, not assumed.      *)
(***************************************************************************)
EXTENDS Integers, Sequences, FiniteSets, TLC

VARIABLES store, created, staged, mergeAsked, stageCalls, commits, inflight,
          promise, lastCall, lastResolve, nCalls

vars == <<store, created, staged, mergeAsked, stageCalls, commits, inflight,
          promise, lastCall, lastResolve, nCalls>>

(***************************************************************************)
(* Bounds                                                                  *)
(***************************************************************************)
\* batch() calls made by the program
MaxBatches == 1
\* staging calls (set/update/clear/remove) made in total
MaxOps == 2
\* commit() calls made in total
MaxCommits == 2

BatchIds == 1..MaxBatches

(***************************************************************************)
(* Values.  Every JavaScript value is a record tagged with its type;       *)
(* strings are character sequences, so that joining and splitting keys is  *)
(* computed.  An object is a map from keys to values, an array a sequence. *)
(***************************************************************************)
Dot == "."
SA == <<"a">>
SB == <<"b">>
SAB == <<"a", ".", "b">>
\* String(undefined)
SUndefined == <<"u", "n", "d", "e", "f", "i", "n", "e", "d">>

Undefined == [type |-> "undefined"]

Str(s) == [type |-> "string", s |-> s]

Num(n) == [type |-> "number", n |-> n]

Obj(m) == [type |-> "object", m |-> m]

Arr(items) == [type |-> "array", items |-> items]

isArray(v) == v.type = "array"

(***************************************************************************)
(* Collections, references, documents (../collection, ../ref, ../doc)      *)
(***************************************************************************)
users == [type |-> "collection", path |-> "users"]

ref(collection, id) == [type |-> "ref", collection |-> collection, id |-> id]

doc(r, data) == [type |-> "doc", ref |-> r, data |-> data]

Ids == { Str(<<"1">>), Str(<<"2">>) }

Id1 == Str(<<"1">>)

\* the empty id, which this layer passes on and the transport rejects
EmptyId == Str(<<>>)

\* ids passed to the calls
CallIds == Ids \cup { EmptyId }

(***************************************************************************)
(* The value codec (../data).  Wire values are numbers, the transport's    *)
(* native document pointers, and maps.                                     *)
(***************************************************************************)
DocPointer(path, id) == [type |-> "docref", path |-> path, id |-> id]

Ptrs == { DocPointer(users.path, i) : i \in Ids }

\* unwrapData: scalars pass through, objects are mapped key-wise, a
\* reference becomes the transport's native document pointer.
RECURSIVE unwrapData(_)
unwrapData(v) ==
  CASE v.type = "number" -> v
    [] v.type = "undefined" -> v
    [] v.type = "ref" -> DocPointer(v.collection.path, v.id)
    [] v.type = "object" -> Obj([k \in DOMAIN v.m |-> unwrapData(v.m[k])])

\* an object that contains itself, which the codec cannot convert
Cyclic == [type |-> "cyclic"]

\* unwrapData throws: the value, or a value in it, cannot be converted
RECURSIVE unwrapThrows(_)
unwrapThrows(v) ==
  \/ v.type = "cyclic"
  \/ v.type = "object" /\ \E k \in DOMAIN v.m : unwrapThrows(v.m[k])

\* wrapData: the inverse conversion, used by get.
RECURSIVE wrapData(_)
wrapData(w) ==
  CASE w.type = "number" -> w
    [] w.type = "undefined" -> w
    [] w.type = "docref" -> ref([type |-> "collection", path |-> w.path], w.id)
    [] w.type = "object" -> Obj([k \in DOMAIN w.m |-> wrapData(w.m[k])])

(***************************************************************************)
(* The store and the transport's write batch (firestore().batch()).        *)
(* A stored document is a map from field name to wire value; a staged      *)
(* operation is what the coordinator handed to                             *)
(* firestoreBatch.set/update/delete.                                       *)
(***************************************************************************)
NoDoc == [data |-> <<>>, exists |-> FALSE]

StoredDoc(data) == [data |-> data, exists |-> TRUE]

\* obj with field k bound to w
Put(obj, k, w) == [x \in (DOMAIN obj) \cup {k} |-> IF x = k THEN w ELSE obj[x]]

HasDot(s) == \E i \in 1..Len(s) : s[i] = Dot

FirstDot(s) == CHOOSE i \in 1..Len(s) : s[i] = Dot /\ \A j \in 1..(i - 1) : s[j] # Dot

\* the field path a dotted key denotes
RECURSIVE FieldPath(_)
FieldPath(s) ==
  IF HasDot(s)
    THEN <<SubSeq(s, 1, FirstDot(s) - 1)>> \o FieldPath(SubSeq(s, FirstDot(s) + 1, Len(s)))
    ELSE <<s>>

\* write w at a field path, creating intermediate maps, keeping siblings
RECURSIVE SetAt(_, _, _)
SetAt(obj, path, w) ==
  IF Len(path) = 1
    THEN Put(obj, path[1], w)
    ELSE LET k == path[1]
             child == IF k \in DOMAIN obj /\ obj[k].type = "object" THEN obj[k].m ELSE <<>>
         IN Put(obj, k, Obj(SetAt(child, Tail(path), w)))

\* update: every key of the data is a field path
RECURSIVE ApplyUpdate(_, _, _)
ApplyUpdate(obj, data, keys) ==
  IF keys = {} THEN obj
  ELSE LET k == CHOOSE x \in keys : TRUE
       IN ApplyUpdate(SetAt(obj, FieldPath(k), data[k]), data, keys \ {k})

\* set with merge: fields of the data overwrite, nested maps merge, the
\* other fields of the existing document survive
RECURSIVE MergeInto(_, _)
MergeInto(old, new) ==
  [k \in (DOMAIN old) \cup (DOMAIN new) |->
     IF k \notin DOMAIN new THEN old[k]
     ELSE IF k \in DOMAIN old /\ old[k].type = "object" /\ new[k].type = "object"
       THEN Obj(MergeInto(old[k].m, new[k].m))
       ELSE new[k]]

\* the options object { merge: ... } of set
Options(merge) == [type |-> "options", merge |-> merge]

IsMerge(op) == op.options = Options(TRUE)

\* an update needs the document to exist; set and delete always apply
CanApply(st, op) == op.op = "update" => st[op.doc].exists

ApplyOp(st, op) ==
  CASE op.op = "set" ->
         [st EXCEPT ![op.doc] =
            IF IsMerge(op) /\ st[op.doc].exists
              THEN StoredDoc(MergeInto(st[op.doc].data, op.data.m))
              ELSE StoredDoc(op.data.m)]
    [] op.op = "update" ->
         [st EXCEPT ![op.doc] =
            StoredDoc(ApplyUpdate(st[op.doc].data, op.data.m, DOMAIN op.data.m))]
    [] op.op = "delete" -> [st EXCEPT ![op.doc] = NoDoc]

\* the staged operations applied in order; ok is FALSE when one of them
\* cannot be applied (st is then meaningless: the store keeps its content)
RECURSIVE ApplyAll(_, _)
ApplyAll(st, ops) ==
  IF ops = <<>> THEN [st |-> st, ok |-> TRUE]
  ELSE IF ~CanApply(st, Head(ops)) THEN [st |-> st, ok |-> FALSE]
  ELSE ApplyAll(ApplyOp(st, Head(ops)), Tail(ops))

\* get(ref): the document read back, or nothing when it does not exist
get(r) ==
  LET p == DocPointer(r.collection.path, r.id)
  IN IF store[p].exists THEN doc(r, wrapData(Obj(store[p].data))) ELSE Undefined

(***************************************************************************)
(* Inputs of the calls                                                     *)
(***************************************************************************)
\* a Field { key, value }: key is a string or an array of strings
Field(key, value) == [type |-> "field", key |-> key, value |-> value]

\* an entry written as in the example of update: [key, value], an array
Pair(key, value) == Arr(<<key, value>>)

\* longest Field[] passed to update
MaxFields == 2

Doc0 == (SA :> Obj(SA :> Num(1) @@ SB :> Num(1))) @@ (SB :> Num(2))

SetData == { Obj(SA :> Num(2)), Obj(SB :> ref(users, Id1)) }

FieldKeys == { Str(SB), Str(SAB), Arr(<<SA, SB>>), Arr(<<SB>>) }

\* the i-th entry of a list carries the value i, so positions are told apart
FieldLists ==
  UNION { { [i \in 1..n |-> Field(ks[i], Num(i))] : ks \in [1..n -> FieldKeys] }
          : n \in 0..MaxFields }

UpdateObjects == { <<>>, (SB :> Num(1)), (SAB :> Num(1)), (SA :> Obj(SB :> Num(1))) }

\* the list of the example of update, with one entry
PairLists == { <<Pair(Str(SB), Num(1))>> }

\* update data: a Field[], a list of [key, value] arrays or a ModelUpdate
\* object
UpdateData ==
  { Arr(l) : l \in FieldLists \cup PairLists } \cup { Obj(o) : o \in UpdateObjects }

\* data passed to set and to update, with data that cannot be converted
SetInputs == SetData \cup { Obj(SA :> Cyclic) }

UpdateInputs == UpdateData \cup { Obj(SA :> Cyclic) }

SetOptions == { Undefined, Options(TRUE), Options(FALSE) }

Forms == { "ref", "pair" }

\* trailing optional argument
Opt(o) == IF o = Undefined THEN <<>> ELSE <<o>>

\* the leading arguments of a call on target (users, id) in either form
TargetArgs(form, id) == IF form = "ref" THEN <<ref(users, id)>> ELSE <<users, id>>

\* the n-th argument, undefined when not passed
Arg(args, n) == IF n <= Len(args) THEN args[n] ELSE Undefined

(***************************************************************************)
(* The coordinator: batch()                                                *)
(***************************************************************************)
\* the object batch() returns
batchAPI == { "set", "update", "clear", "commit" }

firestoreDoc(collection, id) == DocPointer(collection.path, id)

\* firestore().collection(collection.path).doc(id) throws: the transport
\* rejects an empty id
docThrows(collection, id) == id.s = <<>>

\* set: target and data from the overloaded arguments
setResolve(args) ==
  IF args[1].type = "collection"
    THEN [collection |-> args[1], id |-> Arg(args, 2), data |-> Arg(args, 3)]
    ELSE [collection |-> args[1].collection, id |-> args[1].id, data |-> Arg(args, 2)]

\* set staging a merge whatever it is passed
setStagedMerging(t) ==
  [doc |-> firestoreDoc(t.collection, t.id), data |-> unwrapData(t.data),
   op |-> "set", options |-> Options(TRUE)]

\* set: firestoreBatch.set(firestoreDoc, unwrapData(data))
setStaged(t) ==
  [doc |-> firestoreDoc(t.collection, t.id), data |-> unwrapData(t.data),
   op |-> "set", options |-> Undefined]

\* set returning the converted data
setReturnUnwrapped(t) == doc(ref(t.collection, t.id), unwrapData(t.data))

\* set throws before the call of firestoreBatch.set: the pointer is made and
\* the data converted before the call
setThrows(t) == docThrows(t.collection, t.id) \/ unwrapThrows(t.data)

\* set: return doc(ref(collection, id), data)
setReturn(t) == doc(ref(t.collection, t.id), t.data)

\* update: target and data from the overloaded arguments
updateResolve(args) ==
  IF args[1].type = "collection"
    THEN [collection |-> args[1], id |-> Arg(args, 2), data |-> Arg(args, 3)]
    ELSE [collection |-> args[1].collection, id |-> args[1].id, data |-> Arg(args, 2)]

\* Array.prototype.join
RECURSIVE join(_, _)
join(items, sep) ==
  IF items = <<>> THEN <<>>
  ELSE IF Len(items) = 1 THEN items[1]
  ELSE items[1] \o sep \o join(Tail(items), sep)

\* the property name a value used as a computed key denotes
toPropertyKey(v) == IF v.type = "string" THEN v.s ELSE SUndefined

\* the segments joined without the separator
updateKeyNoDot(key) == IF isArray(key) THEN join(key.items, <<>>) ELSE toPropertyKey(key)

\* Array.isArray(key) ? key.join('.') : key
updateKey(key) == IF isArray(key) THEN join(key.items, <<Dot>>) ELSE toPropertyKey(key)

\* the { key, value } pattern: a property the entry does not have is undefined
keyOf(entry) == IF entry.type = "field" THEN entry.key ELSE Undefined

valueOf(entry) == IF entry.type = "field" THEN entry.value ELSE Undefined

\* the reducer keeping the first value written under a key
RECURSIVE reduceFieldsFirstWins(_, _)
reduceFieldsFirstWins(acc, fields) ==
  IF fields = <<>> THEN acc
  ELSE LET k == updateKey(keyOf(Head(fields)))
       IN reduceFieldsFirstWins(IF k \in DOMAIN acc THEN acc
                                ELSE Put(acc, k, valueOf(Head(fields))),
                                Tail(fields))

\* data.reduce((acc, { key, value }) => { acc[...] = value; return acc }, {})
RECURSIVE reduceFields(_, _)
reduceFields(acc, fields) ==
  IF fields = <<>> THEN acc
  ELSE reduceFields(Put(acc, updateKey(keyOf(Head(fields))), valueOf(Head(fields))),
                    Tail(fields))

\* const updateData = Array.isArray(data) ? data.reduce(...) : data
updateData(data) == IF isArray(data) THEN Obj(reduceFields(<<>>, data.items)) ELSE data

\* update: firestoreBatch.update(firebaseDoc, unwrapData(updateData))
updateStaged(t) ==
  [doc |-> firestoreDoc(t.collection, t.id),
   data |-> unwrapData(updateData(t.data)), op |-> "update"]

\* update throws before the call of firestoreBatch.update
updateThrows(t) == docThrows(t.collection, t.id) \/ unwrapThrows(updateData(t.data))

\* clear reading the id of the pair form from the wrong place
clearResolveFirstId(args) ==
  IF args[1].type = "collection"
    THEN [collection |-> args[1], id |-> Id1]
    ELSE [collection |-> args[1].collection, id |-> args[1].id]

\* clear: target from the overloaded arguments
clearResolve(args) ==
  IF args[1].type = "collection"
    THEN [collection |-> args[1], id |-> Arg(args, 2)]
    ELSE [collection |-> args[1].collection, id |-> args[1].id]

\* clear throws before the call of firestoreBatch.delete
clearThrows(t) == docThrows(t.collection, t.id)

\* clear staging a write of an empty document
clearStagedEmpty(t) ==
  [doc |-> firestoreDoc(t.collection, t.id), data |-> Obj(<<>>),
   op |-> "set", options |-> Undefined]

\* clear: firestoreBatch.delete(firebaseDoc)
clearStaged(t) == [doc |-> firestoreDoc(t.collection, t.id), op |-> "delete"]

\* a promise: not made, pending, fulfilled with a value or rejected with an
\* error
Promise(state, value) == [type |-> "promise", value |-> value, state |-> state]

NoPromise == Promise("none", Undefined)

\* what firestoreBatch.commit() resolves to
WriteResults == [type |-> "writeresults"]

\* an error of the transport
Err(code) == [type |-> "error", code |-> code]

\* commit not awaiting the transport
commitPromiseNoAwait(transportPromise) == Promise("fulfilled", Undefined)

\* commit replacing the transport's error by one of its own
commitPromiseWrapped(transportPromise) ==
  CASE transportPromise.state = "fulfilled" -> Promise("fulfilled", Undefined)
    [] transportPromise.state = "rejected" -> Promise("rejected", Err("commit-failed"))
    [] OTHER -> transportPromise

\* async function commit() { await firestoreBatch.commit() }: the promise
\* commit() returns is pending while the transport's is, is fulfilled with
\* undefined when the transport's is fulfilled, and is rejected with the
\* transport's error when the transport's is rejected
commitPromise(transportPromise) ==
  IF transportPromise.state = "fulfilled"
    THEN Promise("fulfilled", Undefined)
    ELSE transportPromise

(***************************************************************************)
(* State                                                                   *)
(*  store       the documents of the database                              *)
(*  created     the batches batch() has returned                           *)
(*  staged      per batch, the operations on its firestoreBatch            *)
(*  mergeAsked  per batch and staged operation, whether the caller passed  *)
(*              { merge: true }                                            *)
(*  stageCalls  per batch, firestoreBatch.set/update/delete calls issued   *)
(*  commits     per batch, firestoreBatch.commit() calls issued            *)
(*  inflight    per batch, the operations the last commit carries          *)
(*  promise     per batch, the promise of the last firestoreBatch.commit() *)
(*  lastCall    the set/update/clear/remove call of the last step          *)
(*  lastResolve the commit settled by the last step, with the store it met *)
(*  nCalls      staging calls made so far                                  *)
(***************************************************************************)
NoCall == [form |-> "none", args |-> <<>>, b |-> 0, name |-> "none",
           thrown |-> FALSE, result |-> Undefined]

NoResolve == [ops |-> <<>>, ok |-> FALSE, b |-> 0, pre |-> [p \in Ptrs |-> NoDoc], nth |-> 0]

Init ==
  /\ store \in { st \in [Ptrs -> {NoDoc, StoredDoc(Doc0)}] : st[DocPointer(users.path, Id1)].exists }
  /\ created = {}
  /\ staged = [b \in BatchIds |-> <<>>]
  /\ mergeAsked = [b \in BatchIds |-> <<>>]
  /\ stageCalls = [b \in BatchIds |-> 0]
  /\ commits = [b \in BatchIds |-> 0]
  /\ inflight = [b \in BatchIds |-> <<>>]
  /\ promise = [b \in BatchIds |-> NoPromise]
  /\ lastCall = NoCall
  /\ lastResolve = NoResolve
  /\ nCalls = 0

RECURSIVE SumOver(_, _)
SumOver(f, S) ==
  IF S = {} THEN 0
  ELSE LET x == CHOOSE y \in S : TRUE IN f[x] + SumOver(f, S \ {x})

\* the batches of the run
Batches == DOMAIN staged

TotalCommits == SumOver(commits, Batches)

\* batch(): const firestoreBatch = firestore().batch()
NewBatch ==
  /\ Cardinality(created) < Cardinality(Batches)
  /\ created' = created \cup {Cardinality(created) + 1}
  /\ lastCall' = NoCall
  /\ lastResolve' = NoResolve
  /\ UNCHANGED <<store, staged, mergeAsked, stageCalls, commits, inflight, promise, nCalls>>

\* the data of the operation has a field whose value is undefined
HasUndefined(op) ==
  op.op = "update" /\ \E k \in DOMAIN op.data.m : op.data.m[k] = Undefined

\* a staging call putting its operation before the ones staged
StagePrepend(b, name, form, args, op, result, asked, accept) ==
  /\ accept \/ commits[b] > 0 \/ HasUndefined(op)
  /\ nCalls' = nCalls + 1
  /\ stageCalls' = [stageCalls EXCEPT ![b] = @ + 1]
  /\ staged' = IF accept THEN [staged EXCEPT ![b] = <<op>> \o @] ELSE staged
  /\ mergeAsked' = IF accept THEN [mergeAsked EXCEPT ![b] = <<asked>> \o @] ELSE mergeAsked
  /\ lastCall' = [form |-> form, args |-> args, b |-> b, name |-> name,
                  thrown |-> ~accept,
                  result |-> IF accept THEN result ELSE Undefined]
  /\ lastResolve' = NoResolve
  /\ UNCHANGED <<store, created, commits, inflight, promise>>

\* a staging call writing the store at once
StageWriteThrough(b, name, form, args, op, result, asked, accept) ==
  /\ accept \/ commits[b] > 0 \/ HasUndefined(op)
  /\ nCalls' = nCalls + 1
  /\ stageCalls' = [stageCalls EXCEPT ![b] = @ + 1]
  /\ staged' = IF accept THEN [staged EXCEPT ![b] = Append(@, op)] ELSE staged
  /\ mergeAsked' = IF accept THEN [mergeAsked EXCEPT ![b] = Append(@, asked)] ELSE mergeAsked
  /\ store' = IF accept THEN ApplyOp(store, op) ELSE store
  /\ lastCall' = [form |-> form, args |-> args, b |-> b, name |-> name,
                  thrown |-> ~accept,
                  result |-> IF accept THEN result ELSE Undefined]
  /\ lastResolve' = NoResolve
  /\ UNCHANGED <<created, commits, inflight, promise>>

\* One staging call of batch b reaching the write batch with operation op.
\* Before commit the write batch takes an operation with defined values.
\* What it does with an undefined value, or after commit was invoked, is
\* not defined here: it takes the operation or throws, and the coordinator
\* has no handler, so the throw reaches the caller.
Stage(b, name, form, args, op, result, asked, accept) ==
  /\ accept \/ commits[b] > 0 \/ HasUndefined(op)
  /\ nCalls' = nCalls + 1
  /\ stageCalls' = [stageCalls EXCEPT ![b] = @ + 1]
  /\ staged' = IF accept THEN [staged EXCEPT ![b] = Append(@, op)] ELSE staged
  /\ mergeAsked' = IF accept THEN [mergeAsked EXCEPT ![b] = Append(@, asked)] ELSE mergeAsked
  /\ lastCall' = [form |-> form, args |-> args, b |-> b, name |-> name,
                  thrown |-> ~accept,
                  result |-> IF accept THEN result ELSE Undefined]
  /\ lastResolve' = NoResolve
  /\ UNCHANGED <<store, created, commits, inflight, promise>>

\* a failed staging call dropping what the batch holds
ThrowAndReset(b, name, form, args) ==
  /\ nCalls' = nCalls + 1
  /\ staged' = [staged EXCEPT ![b] = <<>>]
  /\ mergeAsked' = [mergeAsked EXCEPT ![b] = <<>>]
  /\ lastCall' = [form |-> form, args |-> args, b |-> b, name |-> name,
                  thrown |-> TRUE, result |-> Undefined]
  /\ lastResolve' = NoResolve
  /\ UNCHANGED <<store, created, stageCalls, commits, inflight, promise>>

\* One staging call of batch b throwing before it reaches the write batch:
\* no handler is installed, the exception leaves the call and nothing else
\* happens.
Throw(b, name, form, args) ==
  /\ nCalls' = nCalls + 1
  /\ lastCall' = [form |-> form, args |-> args, b |-> b, name |-> name,
                  thrown |-> TRUE, result |-> Undefined]
  /\ lastResolve' = NoResolve
  /\ UNCHANGED <<store, created, staged, mergeAsked, stageCalls, commits, inflight, promise>>

\* set(ref, data, options?) / set(collection, id, data, options?)
Set(b, form, id, data, options, accept) ==
  LET args == TargetArgs(form, id) \o <<data>> \o Opt(options)
      t == setResolve(args)
  IN /\ b \in created
     /\ nCalls < MaxOps
     /\ IF setThrows(t)
          THEN accept /\ Throw(b, "set", form, args)
          ELSE Stage(b, "set", form, args, setStaged(t), setReturn(t),
                     options = Options(TRUE), accept)

\* update returning without a call to the write batch when the data is empty
UpdateSkipEmpty(b, form, id, data, accept) ==
  LET args == TargetArgs(form, id) \o <<data>>
      t == updateResolve(args)
  IN /\ b \in created
     /\ nCalls < MaxOps
     /\ IF updateThrows(t)
          THEN accept /\ Throw(b, "update", form, args)
          ELSE IF data \in { Arr(<<>>), Obj(<<>>) }
          THEN /\ accept
               /\ nCalls' = nCalls + 1
               /\ lastCall' = [form |-> form, args |-> args, b |-> b, name |-> "update",
                               thrown |-> FALSE, result |-> Undefined]
               /\ lastResolve' = NoResolve
               /\ UNCHANGED <<store, created, staged, mergeAsked, stageCalls, commits,
                              inflight, promise>>
          ELSE Stage(b, "update", form, args, updateStaged(t), Undefined, FALSE, accept)

\* update(ref, data) / update(collection, id, data)
Update(b, form, id, data, accept) ==
  LET args == TargetArgs(form, id) \o <<data>>
      t == updateResolve(args)
  IN /\ b \in created
     /\ nCalls < MaxOps
     /\ IF updateThrows(t)
          THEN accept /\ Throw(b, "update", form, args)
          ELSE Stage(b, "update", form, args, updateStaged(t), Undefined, FALSE, accept)

\* clear(ref) / clear(collection, id)
Clear(b, form, id, accept) ==
  LET args == TargetArgs(form, id)
      t == clearResolve(args)
  IN /\ b \in created
     /\ nCalls < MaxOps
     /\ IF clearThrows(t)
          THEN accept /\ Throw(b, "clear", form, args)
          ELSE Stage(b, "clear", form, args, clearStaged(t), Undefined, FALSE, accept)

\* const { remove } = batch(); remove(ref): the returned object has the
\* properties of batchAPI only, and calling a missing one is a TypeError
Remove(b, id) ==
  /\ b \in created
  /\ nCalls < MaxOps
  /\ "remove" \notin batchAPI
  /\ nCalls' = nCalls + 1
  /\ lastCall' = [form |-> "ref", args |-> <<ref(users, id)>>, b |-> b, name |-> "remove",
                  thrown |-> TRUE, result |-> Undefined]
  /\ lastResolve' = NoResolve
  /\ UNCHANGED <<store, created, staged, mergeAsked, stageCalls, commits, inflight, promise>>

\* commit on a write batch shared by all the batches
CommitShared(b) ==
  /\ b \in created
  /\ TotalCommits < MaxCommits
  /\ promise[b].state # "pending"
  /\ commits' = [commits EXCEPT ![b] = @ + 1]
  /\ inflight' = [inflight EXCEPT ![b] = staged[1] \o staged[Cardinality(Batches)]]
  /\ promise' = [promise EXCEPT ![b] = Promise("pending", Undefined)]
  /\ lastCall' = NoCall
  /\ lastResolve' = NoResolve
  /\ UNCHANGED <<store, created, staged, mergeAsked, stageCalls, nCalls>>

\* commit(): await firestoreBatch.commit()
Commit(b) ==
  /\ b \in created
  /\ TotalCommits < MaxCommits
  /\ promise[b].state # "pending"
  /\ commits' = [commits EXCEPT ![b] = @ + 1]
  /\ inflight' = [inflight EXCEPT ![b] = staged[b]]
  /\ promise' = [promise EXCEPT ![b] = Promise("pending", Undefined)]
  /\ lastCall' = NoCall
  /\ lastResolve' = NoResolve
  /\ UNCHANGED <<store, created, staged, mergeAsked, stageCalls, nCalls>>

\* the error the transport rejects a commit with: the transport failed, or
\* an operation could not be applied
TransportError(transportOk) == IF transportOk THEN Err("not-found") ELSE Err("unavailable")

\* The transport settles the commit: all the operations it carries are
\* applied at once, or it rejects (an operation cannot be applied, or the
\* transport fails) and the store keeps its content.
TransportSettle(b, transportOk) ==
  /\ promise[b].state = "pending"
  /\ LET r == ApplyAll(store, inflight[b])
         ok == transportOk /\ r.ok
     IN /\ store' = IF ok THEN r.st ELSE store
        /\ promise' = [promise EXCEPT ![b] =
                         IF ok THEN Promise("fulfilled", WriteResults)
                         ELSE Promise("rejected", TransportError(transportOk))]
        /\ lastResolve' = [ops |-> inflight[b], ok |-> ok, b |-> b, pre |-> store,
                           nth |-> commits[b]]
  /\ lastCall' = NoCall
  /\ UNCHANGED <<created, staged, mergeAsked, stageCalls, commits, inflight, nCalls>>

Next ==
  \/ NewBatch
  \/ \E b \in BatchIds, form \in Forms, id \in CallIds, data \in SetInputs,
        options \in SetOptions, accept \in BOOLEAN :
       Set(b, form, id, data, options, accept)
  \/ \E b \in BatchIds, form \in Forms, id \in CallIds, data \in UpdateInputs,
        accept \in BOOLEAN :
       Update(b, form, id, data, accept)
  \/ \E b \in BatchIds, form \in Forms, id \in CallIds, accept \in BOOLEAN :
       Clear(b, form, id, accept)
  \/ \E b \in BatchIds, id \in Ids : Remove(b, id)
  \/ \E b \in BatchIds : Commit(b)
  \/ \E b \in BatchIds, transportOk \in BOOLEAN : TransportSettle(b, transportOk)

Spec == Init /\ [][Next]_vars

(***************************************************************************)
(* Several batches.  batch() is called more than once and the calls on the *)
(* batches interleave; the calls take fewer inputs.                        *)
(***************************************************************************)
\* batch() calls made by the program
MaxIsolated == 2

IsolatedIds == 1..MaxIsolated

InitIsolated ==
  /\ store \in { st \in [Ptrs -> {NoDoc, StoredDoc(Doc0)}] : st[DocPointer(users.path, Id1)].exists }
  /\ created = {}
  /\ staged = [b \in IsolatedIds |-> <<>>]
  /\ mergeAsked = [b \in IsolatedIds |-> <<>>]
  /\ stageCalls = [b \in IsolatedIds |-> 0]
  /\ commits = [b \in IsolatedIds |-> 0]
  /\ inflight = [b \in IsolatedIds |-> <<>>]
  /\ promise = [b \in IsolatedIds |-> NoPromise]
  /\ lastCall = NoCall
  /\ lastResolve = NoResolve
  /\ nCalls = 0

NextIsolated ==
  \/ NewBatch
  \/ \E b \in IsolatedIds, id \in Ids, data \in SetData, accept \in BOOLEAN :
       Set(b, "ref", id, data, Undefined, accept)
  \/ \E b \in IsolatedIds, id \in Ids, accept \in BOOLEAN :
       Update(b, "ref", id, Obj(SB :> Num(1)), accept)
  \/ \E b \in IsolatedIds, id \in Ids, accept \in BOOLEAN :
       Clear(b, "pair", id, accept)
  \/ \E b \in IsolatedIds : Commit(b)
  \/ \E b \in IsolatedIds, transportOk \in BOOLEAN : TransportSettle(b, transportOk)

SpecIsolated == InitIsolated /\ [][NextIsolated]_vars

(***************************************************************************)
(* Reading a call and a settled commit                                     *)
(***************************************************************************)
Last(seq) == seq[Len(seq)]

StagingNames == { "set", "update", "clear" }

\* the last step was a staging call that returned
Returned(name) == lastCall.name = name /\ ~lastCall.thrown

\* what the caller passed, read off the argument list by the form used
CallId == IF lastCall.form = "ref" THEN lastCall.args[1].id ELSE lastCall.args[2]

CallRef == ref(users, CallId)

CallPointer == DocPointer(users.path, CallId)

CallData == IF lastCall.form = "ref" THEN lastCall.args[2] ELSE lastCall.args[3]

CallOptions == IF lastCall.form = "ref" THEN Arg(lastCall.args, 3) ELSE Arg(lastCall.args, 4)

\* the operation the last call put on its write batch
CallOp == Last(staged[lastCall.b])

\* the last step settled a commit of batch b; it carried Flushed
Settled == lastResolve.b # 0

Succeeded == Settled /\ lastResolve.ok

Flushed == lastResolve.ops

Before == lastResolve.pre

\* operation i is the last one of the flushed operations on its document
LastOnDoc(i) == \A j \in (i + 1)..Len(Flushed) : Flushed[j].doc # Flushed[i].doc

\* operation i is the only one of the flushed operations on its document
OnlyOnDoc(i) == \A j \in 1..Len(Flushed) : j # i => Flushed[j].doc # Flushed[i].doc

\* the flushed set operations staged by a call that passed { merge: true }
MergeSets ==
  { i \in 1..Len(Flushed) : Flushed[i].op = "set" /\ mergeAsked[lastResolve.b][i] }

\* the flushed set operations staged by a call without options or with
\* { merge: false }
PlainSets ==
  { i \in 1..Len(Flushed) : Flushed[i].op = "set" /\ ~mergeAsked[lastResolve.b][i] }

\* fields of the document before the commit that the data does not name
Unnamed(i) == (DOMAIN Before[Flushed[i].doc].data) \ (DOMAIN Flushed[i].data.m)

(***************************************************************************)
(* C1: set(r, data, {merge: true}) over an existing document is staged as  *)
(* a merge, and after a successful commit every field of the existing      *)
(* document that data does not name is still there with its value.         *)
(* The code drops the options: the statement fails.                        *)
(***************************************************************************)
C1_MergeKeepsFields ==
  /\ (Returned("set") /\ CallOptions = Options(TRUE)) => IsMerge(CallOp)
  /\ Succeeded =>
       \A i \in MergeSets :
         (OnlyOnDoc(i) /\ Before[Flushed[i].doc].exists) =>
           \A k \in Unnamed(i) :
             /\ k \in DOMAIN store[Flushed[i].doc].data
             /\ store[Flushed[i].doc].data[k] = Before[Flushed[i].doc].data[k]

(***************************************************************************)
(* C2: set(r, data) without options or with {merge: false} stages a        *)
(* replacing write of the converted data, and after a successful commit    *)
(* the stored document is exactly that data: every prior field the data    *)
(* does not name is gone, and a read gives the data back.                  *)
(***************************************************************************)
C2_ReplaceDropsFields ==
  /\ (Returned("set") /\ CallOptions # Options(TRUE)) =>
       /\ CallOp.op = "set"
       /\ CallOp.doc = CallPointer
       /\ CallOp.data = unwrapData(CallData)
       /\ ~IsMerge(CallOp)
  /\ Succeeded =>
       \A i \in PlainSets :
         LastOnDoc(i) =>
           /\ store[Flushed[i].doc] = StoredDoc(Flushed[i].data.m)
           /\ \A k \in Unnamed(i) : k \notin DOMAIN store[Flushed[i].doc].data
           /\ get(ref(users, Flushed[i].doc.id)).data = wrapData(Flushed[i].data)

\* a committed plain set dropped a field of the document it overwrote
C2_Witness ==
  /\ Succeeded
  /\ \E i \in PlainSets :
       /\ LastOnDoc(i)
       /\ Before[Flushed[i].doc].exists
       /\ Unnamed(i) # {}

(***************************************************************************)
(* C3: atomicity.  commit() issues exactly one commit call to the          *)
(* transport, carrying all the operations staged so far and touching no    *)
(* document itself; the promise commit() returns is fulfilled only once    *)
(* the transport has confirmed; after a successful commit every flushed    *)
(* write is applied (each document shows the last write staged on it, the  *)
(* other documents are unchanged), and after a failed commit the store is  *)
(* as before: never some of the writes.                                    *)
(***************************************************************************)
\* the write of operation i shows on its document
Shows(i) ==
  LET op == Flushed[i]
      d == store[op.doc]
  IN CASE op.op = "set" -> d = StoredDoc(op.data.m)
       [] op.op = "delete" -> ~d.exists
       [] op.op = "update" ->
            /\ d.exists
            /\ \A k \in DOMAIN op.data.m :
                 LET path == FieldPath(k)
                 IN IF Len(path) = 1
                      THEN k \in DOMAIN d.data /\ d.data[k] = op.data.m[k]
                      ELSE /\ path[1] \in DOMAIN d.data
                           /\ d.data[path[1]].type = "object"
                           /\ path[2] \in DOMAIN d.data[path[1]].m
                           /\ d.data[path[1]].m[path[2]] = op.data.m[k]

Touched == { Flushed[i].doc : i \in 1..Len(Flushed) }

C3_CommitStep ==
  \A b \in BatchIds :
    commits'[b] # commits[b] =>
      /\ commits'[b] = commits[b] + 1
      /\ inflight'[b] = staged[b]
      /\ store' = store

C3_Settled ==
  /\ \A b \in BatchIds :
       (commits[b] > 0 /\ commitPromise(promise[b]).state = "fulfilled") =>
         promise[b].state = "fulfilled"
  /\ Settled =>
       /\ commitPromise(promise[lastResolve.b]).state =
            (IF lastResolve.ok THEN "fulfilled" ELSE "rejected")
       /\ lastResolve.ok =>
            /\ \A i \in 1..Len(Flushed) : LastOnDoc(i) => Shows(i)
            /\ \A p \in Ptrs \ Touched : store[p] = Before[p]
       /\ ~lastResolve.ok => store = Before

C3_Atomicity == [][C3_CommitStep]_vars /\ []C3_Settled

\* a commit of two writes on distinct documents succeeded and both show
C3_Witness ==
  /\ Succeeded
  /\ Len(Flushed) = 2
  /\ Flushed[1].doc # Flushed[2].doc
  /\ store # Before
  /\ Shows(1) /\ Shows(2)

\* a commit of two writes failed and neither shows
C3_WitnessFailed ==
  /\ Settled /\ ~lastResolve.ok
  /\ Len(Flushed) = 2
  /\ store = Before

(***************************************************************************)
(* C4: clear(r) / clear(collection, id) stages exactly one deletion of     *)
(* that document and returns nothing; after a successful commit the        *)
(* document does not exist and a read of r finds nothing.                  *)
(***************************************************************************)
C4_ClearStep ==
  (lastCall'.name = "clear" /\ ~lastCall'.thrown) =>
    LET b == lastCall'.b
        id == IF lastCall'.form = "ref" THEN lastCall'.args[1].id ELSE lastCall'.args[2]
    IN /\ staged'[b] = Append(staged[b], [doc |-> DocPointer(users.path, id), op |-> "delete"])
       /\ \A c \in BatchIds \ {b} : staged'[c] = staged[c]
       /\ lastCall'.result = Undefined
       /\ store' = store

C4_Deleted ==
  Succeeded =>
    \A i \in 1..Len(Flushed) :
      (Flushed[i].op = "delete" /\ LastOnDoc(i)) =>
        /\ ~store[Flushed[i].doc].exists
        /\ get(ref(users, Flushed[i].doc.id)) = Undefined

C4_ClearDeletes == [][C4_ClearStep]_vars /\ []C4_Deleted

\* a committed clear removed a document that existed
C4_Witness ==
  /\ Succeeded
  /\ \E i \in 1..Len(Flushed) :
       /\ Flushed[i].op = "delete"
       /\ LastOnDoc(i)
       /\ Before[Flushed[i].doc].exists
       /\ ~store[Flushed[i].doc].exists

(***************************************************************************)
(* C5: the object batch() returns has an operation remove: remove(r)       *)
(* returns and stages a deletion of r.  The object has no such property:   *)
(* the statement fails.                                                    *)
(***************************************************************************)
C5_RemoveStages ==
  lastCall.name = "remove" =>
    /\ ~lastCall.thrown
    /\ Len(staged[lastCall.b]) > 0
    /\ CallOp = [doc |-> DocPointer(users.path, lastCall.args[1].id), op |-> "delete"]

(***************************************************************************)
(* C6: field-path update equivalence.  update(r, {k: v}) and               *)
(* update(r, [[k, v]]), the list of the one pair (k, v), stage the same    *)
(* update: in either form the data on the write batch is the one-entry map *)
(* from k to the converted v, on the pointer of r; and a successful commit *)
(* of that one update leaves the same document, whichever form staged it.  *)
(* An entry written [k, v] has no key and no value property: the           *)
(* statement fails.                                                        *)
(***************************************************************************)
\* the path and the value of a list entry, in either writing of the pair
EntryPath(entry) == IF entry.type = "field" THEN entry.key ELSE entry.items[1]

EntryValue(entry) == IF entry.type = "field" THEN entry.value ELSE entry.items[2]

\* the last call was update in object form with the single key k
ObjectForm(k) ==
  /\ Returned("update")
  /\ ~isArray(CallData)
  /\ DOMAIN CallData.m = {k}

\* the last call was update in list form with the single pair (k, v), k a single key
ListForm(k) ==
  /\ Returned("update")
  /\ isArray(CallData)
  /\ Len(CallData.items) = 1
  /\ EntryPath(CallData.items[1]) = Str(k)

SingleKeys == { SB, SAB }

\* the update both forms are to stage for key k and value v on the call's target
OneEntryUpdate(k, v) ==
  [doc |-> CallPointer, data |-> Obj(k :> unwrapData(v)), op |-> "update"]

\* the document a one-entry update of key k leaves, by the transport's reading of k
AfterOneEntry(old, k, w) == SetAt(old, FieldPath(k), w)

C6_UpdateFormsAgree ==
  /\ \A k \in SingleKeys :
       /\ ObjectForm(k) => CallOp = OneEntryUpdate(k, CallData.m[k])
       /\ ListForm(k) => CallOp = OneEntryUpdate(k, EntryValue(CallData.items[1]))
  /\ Succeeded =>
       \A i \in 1..Len(Flushed) :
         (Flushed[i].op = "update" /\ OnlyOnDoc(i) /\ Cardinality(DOMAIN Flushed[i].data.m) = 1) =>
           LET k == CHOOSE x \in DOMAIN Flushed[i].data.m : TRUE
           IN /\ k \in SingleKeys \cup { SA }
              /\ store[Flushed[i].doc].data =
                   AfterOneEntry(Before[Flushed[i].doc].data, k, Flushed[i].data.m[k])

(***************************************************************************)
(* C7: dotted nested update.  For a list-form update of Field entries, the *)
(* entry with path [k1, ..., kn] is staged under the one key               *)
(* k1.k2. ... .kn, and the entry with a single key under that key          *)
(* unchanged; the value under a key is that of the last entry with that    *)
(* key.  After a successful commit of an update naming a.b the nested      *)
(* field a.b has the value given, the siblings under a are untouched, and  *)
(* so are the fields of the document the update does not name.             *)
(***************************************************************************)
\* the key an entry's path denotes: segments joined with '.'
DottedKey(key) ==
  IF ~isArray(key) THEN key.s
  ELSE IF Len(key.items) = 1 THEN key.items[1]
  ELSE key.items[1] \o <<".">> \o key.items[2]

\* the last call was update with a list of Field entries
FieldsForm ==
  /\ Returned("update")
  /\ isArray(CallData)
  /\ \A i \in 1..Len(CallData.items) : CallData.items[i].type = "field"

C7_Staged ==
  FieldsForm =>
    LET fields == CallData.items
    IN /\ CallOp.op = "update"
       /\ CallOp.doc = CallPointer
       /\ DOMAIN CallOp.data.m = { DottedKey(fields[i].key) : i \in 1..Len(fields) }
       /\ \A i \in 1..Len(fields) :
            (\A j \in (i + 1)..Len(fields) : DottedKey(fields[j].key) # DottedKey(fields[i].key)) =>
              CallOp.data.m[DottedKey(fields[i].key)] = unwrapData(fields[i].value)

C7_Nested ==
  Succeeded =>
    \A i \in 1..Len(Flushed) :
      (Flushed[i].op = "update" /\ OnlyOnDoc(i) /\ SAB \in DOMAIN Flushed[i].data.m) =>
        LET old == Before[Flushed[i].doc].data
            new == store[Flushed[i].doc].data
            named == DOMAIN Flushed[i].data.m
        IN /\ new[SA].type = "object"
           /\ new[SA].m[SB] = Flushed[i].data.m[SAB]
           /\ \A f \in (DOMAIN old) \ ({SA} \cup named) : f \in DOMAIN new /\ new[f] = old[f]
           /\ DOMAIN new = (DOMAIN old) \cup {SA} \cup (named \ {SAB})
           /\ (SA \in DOMAIN old /\ old[SA].type = "object") =>
                /\ DOMAIN new[SA].m = (DOMAIN old[SA].m) \cup {SB}
                /\ \A f \in (DOMAIN old[SA].m) \ {SB} : new[SA].m[f] = old[SA].m[f]

C8_OptimisticEcho ==
  lastCall.name = "set" =>
    /\ (commits[lastCall.b] = 0 /\ CallId # EmptyId /\ ~unwrapThrows(CallData)) =>
         ~lastCall.thrown
    /\ ~lastCall.thrown =>
         /\ lastCall.result = doc(CallRef, CallData)
         /\ lastCall.result.ref = ref(users, CallOp.doc.id)

\* set(users, id, data, {merge: true}) before any commit, over an existing
\* document, with data that the codec changes, returned the data as passed
C8_Witness ==
  /\ Returned("set")
  /\ lastCall.form = "pair"
  /\ CallOptions = Options(TRUE)
  /\ commits[lastCall.b] = 0
  /\ store[CallPointer].exists
  /\ unwrapData(CallData) # CallData
  /\ lastCall.result.data = CallData

(***************************************************************************)
(* C9: target-form equivalence.  Whatever form a set, update or clear call *)
(* used, the operation it staged is on the document pointer of             *)
(* (collection, id) and is the one the call stages in the reference form   *)
(* and the one it stages in the pair form; and the Document set returned   *)
(* is the one it returns in either form.                                   *)
(***************************************************************************)
\* the arguments of the last call after the target
CallRest == SubSeq(lastCall.args, IF lastCall.form = "ref" THEN 2 ELSE 3, Len(lastCall.args))

\* the last call written in the given form
CallIn(form) == TargetArgs(form, CallId) \o CallRest

\* the operation a call of that name with those arguments stages
StagedBy(name, args) ==
  CASE name = "set" -> setStaged(setResolve(args))
    [] name = "update" -> updateStaged(updateResolve(args))
    [] name = "clear" -> clearStaged(clearResolve(args))

C9_TargetForms ==
  \A name \in StagingNames :
    Returned(name) =>
      /\ CallOp.doc = CallPointer
      /\ \A form \in Forms :
           /\ CallOp = StagedBy(name, CallIn(form))
           /\ name = "set" => lastCall.result = setReturn(setResolve(CallIn(form)))

\* clear(users, "2") staged the deletion that clear(ref(users, "2")) stages
C9_Witness ==
  /\ Returned("clear")
  /\ lastCall.form = "pair"
  /\ CallId # Id1
  /\ CallOp = clearStaged(clearResolve(<<ref(users, CallId)>>))

(***************************************************************************)
(* C10: single-use batch.  Once commit() was invoked on a batch, no set,   *)
(* update or clear of that batch reaches the write batch and nothing is    *)
(* staged on it.  The coordinator keeps no state and checks nothing before *)
(* it calls the write batch: the statement fails.                          *)
(***************************************************************************)
C10_Step ==
  \A b \in BatchIds :
    commits[b] > 0 => (stageCalls'[b] = stageCalls[b] /\ staged'[b] = staged[b])

C10_SingleUse == [][C10_Step]_vars

(***************************************************************************)
(* C11: commit error propagation.  When the transport rejects the commit,  *)
(* the promise commit() returned is rejected with the transport's error,   *)
(* unchanged.  A commit() call makes exactly one commit call on the write  *)
(* batch, and no other step makes one: the rejection is followed by no     *)
(* retry and no replay, and it leaves the staged operations and the store  *)
(* as they were.                                                           *)
(***************************************************************************)
\* the step is a commit() call on batch b
CommitCalled(b) == promise[b].state # "pending" /\ promise'[b].state = "pending"

C11_Step ==
  \A b \in DOMAIN promise :
    /\ commits'[b] = commits[b] + (IF CommitCalled(b) THEN 1 ELSE 0)
    /\ (promise[b].state = "pending" /\ promise'[b].state = "rejected") =>
         /\ inflight' = inflight
         /\ staged' = staged
         /\ store' = store

C11_Rejected ==
  /\ \A b \in DOMAIN promise :
       promise[b].state = "rejected" =>
         /\ commitPromise(promise[b]).state = "rejected"
         /\ commitPromise(promise[b]).value = promise[b].value
  /\ (Settled /\ ~lastResolve.ok) =>
       /\ promise[lastResolve.b].state = "rejected"
       /\ promise[lastResolve.b].value \in { Err("unavailable"), Err("not-found") }
       /\ lastResolve.nth = commits[lastResolve.b]

C11_ErrorPropagates == [][C11_Step]_vars /\ []C11_Rejected

\* the transport failed a commit carrying operations, and commit() rejected
\* with that error
C11_Witness ==
  /\ Settled /\ ~lastResolve.ok
  /\ Len(Flushed) > 0
  /\ promise[lastResolve.b] = Promise("rejected", Err("unavailable"))
  /\ commitPromise(promise[lastResolve.b]).value = Err("unavailable")

(***************************************************************************)
(* C12: lifecycle.  A batch goes from open (no commit invoked) to          *)
(* committing (commit pending) to committed (commit fulfilled) and never   *)
(* leaves committed; a second commit() on the batch is reported by the     *)
(* coordinator: it makes no second commit call on the write batch and      *)
(* flushes nothing again.  The coordinator keeps no state and calls        *)
(* firestoreBatch.commit() again: the statement fails.                     *)
(***************************************************************************)
C12_Step ==
  \A b \in DOMAIN promise :
    /\ promise[b].state = "fulfilled" => promise'[b] = promise[b]
    /\ commits[b] > 0 => (commits'[b] = commits[b] /\ inflight'[b] = inflight[b])

C12_Lifecycle == [][C12_Step]_vars

(***************************************************************************)
(* C13: last-in-wins normalization.  For a list-form update of Field       *)
(* entries, the mapping staged on the write batch has exactly one entry    *)
(* per distinct computed key, and under each key the converted value of    *)
(* the last entry of the list that computes to that key; the single key    *)
(* 'a.b' and the path ['a', 'b'] compute to the same key.                  *)
(***************************************************************************)
\* the keys the entries of a list compute to
ComputedKeys(fields) == { DottedKey(fields[i].key) : i \in 1..Len(fields) }

\* the last entry of the list computing to key k
LastEntry(fields, k) ==
  CHOOSE i \in 1..Len(fields) :
    /\ DottedKey(fields[i].key) = k
    /\ \A j \in (i + 1)..Len(fields) : DottedKey(fields[j].key) # k

EmptyUpdates == { Arr(<<>>), Obj(<<>>) }

C14_Step ==
  LET b == lastCall'.b
      id == IF lastCall'.form = "ref" THEN lastCall'.args[1].id ELSE lastCall'.args[2]
      data == IF lastCall'.form = "ref" THEN lastCall'.args[2] ELSE lastCall'.args[3]
      empty == [doc |-> DocPointer(users.path, id), data |-> Obj(<<>>), op |-> "update"]
  IN (lastCall'.name = "update" /\ id # EmptyId /\ data \in EmptyUpdates) =>
       /\ stageCalls'[b] = stageCalls[b] + 1
       /\ commits[b] = 0 => ~lastCall'.thrown
       /\ ~lastCall'.thrown => staged'[b] = Append(staged[b], empty)

C14_EmptyUpdateStaged == [][C14_Step]_vars

\* update(target, []) came after another empty update: both are on the
\* write batch, each by a call of its own
C14_Witness ==
  /\ Returned("update")
  /\ CallData = Arr(<<>>)
  /\ stageCalls[lastCall.b] = 2
  /\ Len(staged[lastCall.b]) = 2
  /\ \A i \in 1..2 : staged[lastCall.b][i].op = "update" /\ staged[lastCall.b][i].data = Obj(<<>>)

(***************************************************************************)
(* C15: a staging error leaves the batch unchanged.  When making the       *)
(* document pointer or converting the data throws during set, update or    *)
(* clear, the call throws to its caller in the same step, no call is made  *)
(* on the write batch, and the operations staged before are unchanged;     *)
(* a later commit flushes exactly the operations on the write batch.       *)
(***************************************************************************)
\* the converted data of a call of that name
Converts(name, data) ==
  CASE name = "set" -> ~unwrapThrows(data)
    [] name = "update" -> ~unwrapThrows(updateData(data))
    [] name = "clear" -> TRUE

C15_Step ==
  LET b == lastCall'.b
      name == lastCall'.name
      rest == IF lastCall'.form = "ref" THEN 2 ELSE 3
      id == IF lastCall'.form = "ref" THEN lastCall'.args[1].id ELSE lastCall'.args[2]
  IN /\ (name \in StagingNames /\ (id = EmptyId \/ ~Converts(name, Arg(lastCall'.args, rest)))) =>
          /\ lastCall'.thrown
          /\ lastCall'.result = Undefined
          /\ stageCalls' = stageCalls
          /\ staged' = staged
          /\ inflight' = inflight
          /\ store' = store
     /\ \A c \in DOMAIN promise : CommitCalled(c) => inflight'[c] = staged[c]

C15_StagingError == [][C15_Step]_vars

\* a set whose data cannot be converted threw on a batch that holds an
\* operation staged before, and the batch still holds exactly that one
C15_Witness ==
  /\ lastCall.name = "set" /\ lastCall.thrown
  /\ CallId # EmptyId
  /\ unwrapThrows(CallData)
  /\ commits[lastCall.b] = 0
  /\ stageCalls[lastCall.b] = 1
  /\ Len(staged[lastCall.b]) = 1

(***************************************************************************)
(* C16: no effect before commit.  A set, update or clear call leaves the   *)
(* store as it is; as long as commit() was invoked on no batch the store   *)
(* does not change; and when the store changes, it is by the settling of a *)
(* commit that was invoked, which writes the operations that commit        *)
(* carries.                                                                *)
(***************************************************************************)
C16_Step ==
  /\ lastCall' # NoCall => store' = store
  /\ (\A b \in DOMAIN commits : commits'[b] = 0) => store' = store
  /\ store' # store =>
       \E b \in DOMAIN promise :
         /\ commits[b] > 0
         /\ promise[b].state = "pending" /\ promise'[b].state = "fulfilled"
         /\ store' = ApplyAll(store, inflight[b]).st

C16_NoEffectBeforeCommit == [][C16_Step]_vars

\* a set and a clear of an existing document are on the write batch, no
\* commit was invoked, and the document is as it was
C16_Witness ==
  /\ Returned("clear")
  /\ CallId = Id1
  /\ commits[lastCall.b] = 0
  /\ Len(staged[lastCall.b]) = 2
  /\ staged[lastCall.b][1].op = "set"
  /\ staged[lastCall.b][1].doc = CallPointer
  /\ store[CallPointer] = StoredDoc(Doc0)

(***************************************************************************)
(* C17: batch isolation.  Each batch() call makes a batch of its own,      *)
(* empty.  A staging call on one batch changes the operations of no other  *)
(* batch.  commit() on a batch carries exactly the operations staged       *)
(* through that batch and touches no other batch; the settling of a        *)
(* commit, success or failure, writes that commit's operations or nothing, *)
(* and changes neither the staged operations of any batch nor the commit   *)
(* of another.                                                             *)
(***************************************************************************)
\* the step changes nothing of the batches other than b
OthersKept(b) ==
  \A c \in Batches \ {b} :
    /\ staged'[c] = staged[c]
    /\ stageCalls'[c] = stageCalls[c]
    /\ inflight'[c] = inflight[c]
    /\ commits'[c] = commits[c]
    /\ promise'[c] = promise[c]

C17_Step ==
  /\ created' # created =>
       \E b \in Batches \ created :
         /\ created' = created \cup {b}
         /\ staged'[b] = <<>> /\ stageCalls'[b] = 0 /\ commits'[b] = 0
         /\ OthersKept(b)
  /\ lastCall' # NoCall =>
       /\ OthersKept(lastCall'.b)
       /\ Len(staged'[lastCall'.b]) <= Len(staged[lastCall'.b]) + 1
  /\ \A b \in Batches :
       /\ CommitCalled(b) =>
            /\ inflight'[b] = staged[b]
            /\ staged'[b] = staged[b]
            /\ OthersKept(b)
       /\ (promise[b].state = "pending" /\ promise'[b].state # "pending") =>
            /\ store' = (IF promise'[b].state = "fulfilled"
                           THEN ApplyAll(store, inflight[b]).st ELSE store)
            /\ staged'[b] = staged[b]
            /\ OthersKept(b)

C17_BatchIsolation == [][C17_Step]_vars

\* the commit of one batch succeeded and wrote its operation, while the
\* other batch holds an operation on another document, which was not written
C17_Witness ==
  /\ Succeeded
  /\ Len(Flushed) = 1
  /\ Flushed = staged[lastResolve.b]
  /\ store # Before
  /\ \E c \in Batches \ {lastResolve.b} :
       /\ commits[c] = 0
       /\ Len(staged[c]) = 1
       /\ staged[c][1].op = "delete"
       /\ staged[c][1].doc # Flushed[1].doc
       /\ Before[staged[c][1].doc].exists
       /\ store[staged[c][1].doc] = Before[staged[c][1].doc]

(***************************************************************************)
(* C18: staging order and last-write-wins.  A set, update or clear call    *)
(* that returns appends exactly one operation, on the document of the      *)
(* call, to the operations of its write batch; no step removes or reorders *)
(* the operations staged.  After a successful commit each document is what *)
(* the flushed operations on that document, applied in call order, make of *)
(* it, whatever the operations on the other documents: the last set or     *)
(* clear on a document decides it, and a document no operation names is    *)
(* as it was.                                                              *)
(***************************************************************************)
IsPrefix(s, t) == Len(s) <= Len(t) /\ SubSeq(t, 1, Len(s)) = s

\* the operations of a sequence that are on document p, in their order
OnDoc(ops, p) == SelectSeq(ops, LAMBDA op : op.doc = p)

C18_Step ==
  /\ \A b \in Batches : IsPrefix(staged[b], staged'[b])
  /\ (lastCall'.name \in StagingNames /\ ~lastCall'.thrown) =>
       LET b == lastCall'.b
           id == IF lastCall'.form = "ref" THEN lastCall'.args[1].id ELSE lastCall'.args[2]
       IN /\ Len(staged'[b]) = Len(staged[b]) + 1
          /\ staged'[b][Len(staged'[b])].doc = DocPointer(users.path, id)
          /\ staged'[b][Len(staged'[b])].op =
               (IF lastCall'.name = "clear" THEN "delete" ELSE lastCall'.name)

C18_Applied ==
  Succeeded =>
    \A p \in Ptrs :
      /\ store[p] = ApplyAll(Before, OnDoc(Flushed, p)).st[p]
      /\ OnDoc(Flushed, p) = <<>> => store[p] = Before[p]
      /\ OnDoc(Flushed, p) # <<>> =>
           LET last == Last(OnDoc(Flushed, p))
           IN /\ last.op = "set" => store[p] = StoredDoc(last.data.m)
              /\ last.op = "delete" => store[p] = NoDoc

C18_StagingOrder == [][C18_Step]_vars /\ []C18_Applied

\* two sets of different data on one document were committed, and the
\* document holds the data of the second
C18_Witness ==
  /\ Succeeded
  /\ Len(Flushed) = 2
  /\ Flushed[1].op = "set" /\ Flushed[2].op = "set"
  /\ Flushed[1].doc = Flushed[2].doc
  /\ Flushed[1].data # Flushed[2].data
  /\ store[Flushed[2].doc] = StoredDoc(Flushed[2].data.m)

====
